---- MODULE Spec2Model ----
(***************************************************************************)
(* A model of the OpenTick C++ client (bindings/cpp/include/opentick.h):   *)
(* one Connection with its reactor thread (io_service_), the read loop     *)
(* (ReadHead/ReadBody), the write path (Send/Write), the pending-request   *)
(* table (store_), the prepared-statement cache (prepared_), the ticker    *)
(* counter, and caller threads running Use, Prepare, ExecuteAsync/Execute, *)
(* BatchInsertAsync/BatchInsert, Future.Get and Close.                     *)
(*                                                                         *)
(* Every handler that runs on the reactor thread is one action (the        *)
(* reactor is single-threaded).  A caller thread's call is split at each   *)
(* point where it touches shared state: the atomic ++ticker_counter_, the  *)
(* io_service_.post of Send, each locked look at store_ in Get_, and each  *)
(* locked access to prepared_.                                             *)
(***************************************************************************)
EXTENDS Integers, Sequences, FiniteSets, TLC

\* ------------------------------------------------------------------ bounds
\* Number of caller threads.
NumCallers == 2
\* Cap on ticker_counter_: no request is started past it.
MaxTicker == 3
\* Cap on the number of length prefixes the server gets to deliver.
MaxInbound == 2
\* Cap on the requests made where the socket may fail (SpecIO).
MaxRequests == 2

Callers == 1..NumCallers

\* ------------------------------------------------ wire integers (64 bit)
\* A BSON integer read with get<std::int64_t>() is kept as the pair
\* (hi, lo): lo is its low 32 bits read as a signed int, hi the rest, so the
\* number is hi * 2^32 + lo.  Numbers that fit an int have hi = 0.
I64(h, l) == [hi |-> h, lo |-> l]

\* The conversion of a std::int64_t argument to the int parameter of
\* Notify(int, const Value&): the low 32 bits are kept.
ToInt(t) == t.lo

\* ------------------------------------------------------- json documents
\* A json value: tag is one of null, int, str, float, bool, array, object.
JNull == [tag |-> "null", i |-> 0, s |-> "", a |-> <<>>]
JInt(n) == [tag |-> "int", i |-> n, s |-> "", a |-> <<>>]
JStr(x) == [tag |-> "str", i |-> 0, s |-> x, a |-> <<>>]
JArr(items) == [tag |-> "array", i |-> 0, s |-> "", a |-> items]

\* json::push_back: a null value becomes an array first.
PushBack(j, x) == IF j.tag = "null" THEN JArr(<<x>>) ELSE JArr(Append(j.a, x))

\* ------------------------------------------------------------ ValueScalar
\* An argument or a result cell: tag is int64, string, tm, double, bool or
\* null; a tm carries its nanoseconds since the epoch in i.
IntS(n) == [tag |-> "int64", i |-> n, s |-> ""]
StrS(x) == [tag |-> "string", i |-> 0, s |-> x]
TmS(d) == [tag |-> "tm", i |-> d, s |-> ""]
NullS == [tag |-> "null", i |-> 0, s |-> ""]

NanosPerSecond == 1000000000

\* C++ integer division and remainder truncate toward zero.
CDiv(a, b) == IF a >= 0 THEN a \div b ELSE -((-a) \div b)
CRem(a, b) == a - b * CDiv(a, b)

\* One argument as ConvertArgs pushes it.
ArgToJson(v) ==
  IF v.tag = "tm"
    THEN JArr(<<JInt(CDiv(v.i, NanosPerSecond)), JInt(CRem(v.i, NanosPerSecond))>>)
    ELSE IF v.tag = "int64" THEN JInt(v.i)
    ELSE IF v.tag = "string" THEN JStr(v.s)
    ELSE JNull

RECURSIVE ConvertArgs(_, _)
ConvertArgs(args, jargs) ==
  IF args = <<>> THEN jargs
  ELSE ConvertArgs(Tail(args), PushBack(jargs, ArgToJson(Head(args))))

\* ------------------------------------------------------------------ Value
\* std::variant<ResultSet, ValueScalar>: tag rs (a ResultSet, in rows) or a
\* scalar tag (str, int, float, bool, null).
StrV(x) == [tag |-> "str", i |-> 0, s |-> x, rows |-> <<>>]
IntV(n) == [tag |-> "int", i |-> n, s |-> "", rows |-> <<>>]
ScalarV(t) == [tag |-> t, i |-> 0, s |-> "", rows |-> <<>>]
RsV(r) == [tag |-> "rs", i |-> 0, s |-> "", rows |-> r]

IsNumber(j) == j.tag \in {"int", "float"}

\* One cell of a result matrix (ReadBody's inner loop).  ok is FALSE where
\* get<std::int64_t>() throws a type_error.
DecodeCell(c) ==
  IF c.tag = "str" THEN [ok |-> TRUE, v |-> StrS(c.s)]
  ELSE IF c.tag = "int" THEN [ok |-> TRUE, v |-> IntS(c.i)]
  ELSE IF c.tag \in {"float", "bool"} THEN [ok |-> TRUE, v |-> [tag |-> c.tag, i |-> 0, s |-> ""]]
  ELSE IF c.tag = "array" /\ Len(c.a) = 2
    THEN IF IsNumber(c.a[1]) /\ IsNumber(c.a[2])
           THEN [ok |-> TRUE, v |-> TmS(c.a[1].i * NanosPerSecond + c.a[2].i)]
           ELSE [ok |-> FALSE, v |-> NullS]
  ELSE [ok |-> TRUE, v |-> NullS]

\* tmp2.size(): 0 for null, the element count for an array, 1 for any other.
JSize(j) == IF j.tag = "null" THEN 0 ELSE IF j.tag \in {"array", "object"} THEN Len(j.a) ELSE 1

\* One row: tmp2[j] throws on anything but an array (or null, which has no j).
DecodeRow(r) ==
  IF JSize(r) = 0 THEN [ok |-> TRUE, v |-> <<>>]
  ELSE IF r.tag # "array" THEN [ok |-> FALSE, v |-> <<>>]
  ELSE [ok |-> \A k \in 1..Len(r.a) : DecodeCell(r.a[k]).ok,
        v |-> [k \in 1..Len(r.a) |-> DecodeCell(r.a[k]).v]]

\* The "1" field of a response as ReadBody turns it into a Value.
DecodeOutcome(tmp) ==
  IF tmp.tag = "str" THEN [ok |-> TRUE, v |-> StrV(tmp.s)]
  ELSE IF tmp.tag = "int" THEN [ok |-> TRUE, v |-> IntV(tmp.i)]
  ELSE IF tmp.tag \in {"float", "bool", "null"} THEN [ok |-> TRUE, v |-> ScalarV(tmp.tag)]
  ELSE IF JSize(tmp) = 0 THEN [ok |-> TRUE, v |-> RsV(<<>>)]
  ELSE IF tmp.tag # "array" THEN [ok |-> FALSE, v |-> RsV(<<>>)]
  ELSE [ok |-> \A k \in 1..Len(tmp.a) : DecodeRow(tmp.a[k]).ok,
        v |-> RsV([k \in 1..Len(tmp.a) |-> DecodeRow(tmp.a[k]).v])]

\* ----------------------------------------------------------------- frames
\* A message handed to Send: the empty string (the heartbeat pong) or the
\* BSON of a request {"0": ticker, "1": cmd, "2": statement, "3": args}.
\* The statement is the SQL text (or database name) or a prepared id.
EmptyMsg == [cmd |-> "", t |-> 0, text |-> "", id |-> 0, byid |-> FALSE, args |-> JNull, has3 |-> FALSE]
UseMsg(t, db) == [cmd |-> "use", t |-> t, text |-> db, id |-> 0, byid |-> FALSE, args |-> JNull, has3 |-> FALSE]
PrepareMsg(t, sql) == [cmd |-> "prepare", t |-> t, text |-> sql, id |-> 0, byid |-> FALSE, args |-> JNull, has3 |-> FALSE]
\* The run request without `if (prepared >= 0) j["2"] = prepared`.
RunMsgAlwaysText(t, sql, prepared, jargs) ==
  [cmd |-> "run", t |-> t, text |-> sql, id |-> 0, byid |-> FALSE, args |-> jargs, has3 |-> TRUE]
\* json j = {{"0", ticker}, {"1", "run"}, {"2", sql}, {"3", jargs}}, and
\* j["2"] = prepared if prepared >= 0.
RunMsg(t, sql, prepared, jargs) ==
  IF prepared >= 0
    THEN [cmd |-> "run", t |-> t, text |-> "", id |-> prepared, byid |-> TRUE, args |-> jargs, has3 |-> TRUE]
    ELSE [cmd |-> "run", t |-> t, text |-> sql, id |-> 0, byid |-> FALSE, args |-> jargs, has3 |-> TRUE]
BatchMsg(t, prepared, data) ==
  [cmd |-> "batch", t |-> t, text |-> "", id |-> prepared, byid |-> TRUE, args |-> JArr(data), has3 |-> TRUE]

\* msg.size(): 0 for the empty string; a BSON document has 5 bytes or more.
MsgSize(msg) == IF msg = EmptyMsg THEN 0 ELSE 5
\* What the Send handler appends to msg_out_buf_: the length, then the bytes.
Frame(msg) == [len |-> MsgSize(msg), payload |-> msg]

\* --------------------------------------------------------------- the state
VARIABLES
  ticker_counter_,  \* std::atomic<int>
  prepared_,        \* std::map<std::string, int>, as a function on the cached texts
  store_,           \* std::map<int, Value>, as a function on the stored tickers
  msg_out_buf_,     \* frames queued while a write is in flight
  outbox_,          \* frames of the write in flight
  socket_open,      \* socket_.is_open()
  io_queue,         \* handlers posted to io_service_, in order
  reads,            \* outstanding async_read operations
  writes,           \* outstanding async_write operations
  wire,             \* frames the socket has written so far
  inbound,          \* the length prefixes received, in order
  assert_ok,        \* FALSE once Write's assert(outbox_.empty()) has failed
  pc,               \* where each caller thread is
  call,             \* each caller thread's locals
  futures,          \* tickers of the Futures handed to the application
  allocated,        \* the tickers handed out, in the order of the increments
  raced,            \* the texts two Prepare calls missed in the cache at once
  late,             \* the tickers taken after the connection error fired
  origin            \* for each stored ticker, where its outcome came from

vars == <<ticker_counter_, prepared_, store_, msg_out_buf_, outbox_, socket_open,
          io_queue, reads, writes, wire, inbound, assert_ok,
          pc, call, futures, allocated, raced, late, origin>>

reactor_vars == <<store_, msg_out_buf_, outbox_, socket_open, io_queue, reads,
                  writes, wire, inbound, assert_ok, origin>>
caller_vars == <<ticker_counter_, prepared_, pc, call, futures, allocated, raced, late>>

\* ------------------------------------------------------------- the server
\* Ticker fields a response may carry: those of the requests made so far,
\* the reserved -1, and one that does not fit an int (2^32 + 1).
ResponseTickers == {I64(0, t) : t \in 1..ticker_counter_} \cup {I64(0, -1), I64(1, 1)}
\* Outcome fields a response may carry: an error string, two statement ids
\* (one negative), the matrix [[1]], the matrix [[1], 5] whose second row is
\* no row, and the one-row matrix of the args of a run request the server has
\* received.
ResponseOutcomes ==
  {JStr("err"), JInt(7), JInt(-2), JArr(<<JArr(<<JInt(1)>>)>>),
   JArr(<<JArr(<<JInt(1)>>), JInt(5)>>)}
    \cup {JArr(<<wire[k].payload.args>>) :
            k \in {x \in 1..Len(wire) : /\ wire[x].payload.cmd = "run"
                                        /\ wire[x].payload.args.tag = "array"}}
\* Length prefixes the socket may deliver: 0, 1, and a longer frame.
PrefixLens == {0, 1, 5}

NoTicker == I64(0, 0)
\* The payloads a body read of len bytes may deliver.
Payloads(len) ==
  IF len = 1
    THEN {[kind |-> "H", t |-> NoTicker, out |-> JNull],
          [kind |-> "garbage", t |-> NoTicker, out |-> JNull]}
    ELSE {[kind |-> "garbage", t |-> NoTicker, out |-> JNull]}
         \cup {[kind |-> "bson", t |-> t, out |-> o] : t \in ResponseTickers, o \in ResponseOutcomes}

\* ------------------------------------------------------------ the reactor
\* Connection::Notify: store_[ticker] = value (and wake every waiter).
Notify(table, ticker, value) ==
  [k \in DOMAIN table \cup {ticker} |-> IF k = ticker THEN value ELSE table[k]]

\* Where a stored outcome came from: a response (with its ticker field), a
\* failed read or a failed write.
FromResponse(t) == [kind |-> "response", t |-> t]
FromRead == [kind |-> "read", t |-> NoTicker]
FromWrite == [kind |-> "write", t |-> NoTicker]

\* The connection error has fired: ticker -1 holds the outcome of a failed
\* read or write.
ConnectionErrorFired ==
  -1 \in DOMAIN store_ /\ origin[-1].kind \in {"read", "write"}

\* e.message() of a failed read or write.
ReadError == IF socket_open THEN "End of file" ELSE "Operation canceled"
WriteError == IF socket_open THEN "Broken pipe" ELSE "Operation canceled"

\* Send without `if (!IsConnected()) return`.
SendAlways(queue, msg) == Append(queue, [h |-> "send", msg |-> msg])
\* Connection::Send: nothing when the socket is not open, else the handler
\* is posted to io_service_.
Send(queue, msg) ==
  IF ~socket_open THEN queue ELSE Append(queue, [h |-> "send", msg |-> msg])

\* An async_read armed by ReadHead or ReadBody; one armed on a closed socket
\* can only fail.
ReadHead == [op |-> "head", len |-> 4, live |-> socket_open]
ReadBody(len) == [op |-> "body", len |-> len, live |-> socket_open]

Remove(seq, k) == [j \in 1..(Len(seq) - 1) |-> IF j < k THEN seq[j] ELSE seq[j + 1]]
Replace(seq, k, x) == [seq EXCEPT ![k] = x]


\* Connection::Write with msg_out_buf_ = buf, outbox_ = box and the
\* outstanding writes ws: the buffers are swapped and a write is started.
Write(buf, box, ws) ==
  /\ assert_ok' = (assert_ok /\ box = <<>>)
  /\ outbox_' = buf
  /\ msg_out_buf_' = box
  /\ writes' = Append(ws, [live |-> socket_open])

\* The handler Send posted without `if (self->outbox_.size()) return`.
SendHandlerAlwaysWrite ==
  /\ io_queue # <<>>
  /\ Head(io_queue).h = "send"
  /\ io_queue' = Tail(io_queue)
  /\ Write(Append(msg_out_buf_, Frame(Head(io_queue).msg)), outbox_, writes)
  /\ UNCHANGED <<store_, origin, socket_open, reads, wire, inbound>>
  /\ UNCHANGED caller_vars
\* The handler Send posted: the frame is appended to msg_out_buf_, and a
\* write is started unless one is in flight.
SendHandler ==
  /\ io_queue # <<>>
  /\ Head(io_queue).h = "send"
  /\ io_queue' = Tail(io_queue)
  /\ LET buf == Append(msg_out_buf_, Frame(Head(io_queue).msg)) IN
       IF outbox_ # <<>>
         THEN /\ msg_out_buf_' = buf
              /\ UNCHANGED <<outbox_, writes, assert_ok>>
         ELSE Write(buf, outbox_, writes)
  /\ UNCHANGED <<store_, origin, socket_open, reads, wire, inbound>>
  /\ UNCHANGED caller_vars

\* The posted handler without socket_.close().
CloseHandlerNoClose ==
  /\ io_queue # <<>>
  /\ Head(io_queue).h = "close"
  /\ io_queue' = Tail(io_queue)
  /\ UNCHANGED <<store_, origin, msg_out_buf_, outbox_, socket_open, reads, writes,
                 wire, inbound, assert_ok>>
  /\ UNCHANGED caller_vars
\* The handler Close posted: shutdown and close.
CloseHandler ==
  /\ io_queue # <<>>
  /\ Head(io_queue).h = "close"
  /\ io_queue' = Tail(io_queue)
  /\ socket_open' = FALSE
  /\ UNCHANGED <<store_, origin, msg_out_buf_, outbox_, reads, writes, wire,
                 inbound, assert_ok>>
  /\ UNCHANGED caller_vars

\* The completion handler of Write's async_write, failed.
WriteFailed(k) ==
  /\ store_' = Notify(store_, -1, StrV(WriteError))
  /\ origin' = Notify(origin, -1, FromWrite)
  /\ writes' = Remove(writes, k)
  /\ UNCHANGED <<msg_out_buf_, outbox_, socket_open, io_queue, reads, wire,
                 inbound, assert_ok>>
  /\ UNCHANGED caller_vars

\* The completion handler without `if (self->msg_out_buf_.size()) self->Write()`.
WriteDoneNoFlush(k) ==
  /\ writes[k].live
  /\ wire' = wire \o outbox_
  /\ outbox_' = <<>>
  /\ writes' = Remove(writes, k)
  /\ UNCHANGED <<msg_out_buf_, assert_ok>>
  /\ UNCHANGED <<store_, origin, socket_open, io_queue, reads, inbound>>
  /\ UNCHANGED caller_vars
\* The completion handler of Write's async_write, succeeded: outbox_ is
\* cleared and what was queued meanwhile is written.
WriteDone(k) ==
  /\ writes[k].live
  /\ wire' = wire \o outbox_
  /\ IF msg_out_buf_ # <<>>
       THEN Write(msg_out_buf_, <<>>, Remove(writes, k))
       ELSE /\ outbox_' = <<>>
            /\ writes' = Remove(writes, k)
            /\ UNCHANGED <<msg_out_buf_, assert_ok>>
  /\ UNCHANGED <<store_, origin, socket_open, io_queue, reads, inbound>>
  /\ UNCHANGED caller_vars

\* The failed completion handler with a ReadHead() after its Notify.
ReadFailedRearm(k) ==
  /\ store_' = Notify(store_, -1, StrV(ReadError))
  /\ origin' = Notify(origin, -1, FromRead)
  /\ reads' = Replace(reads, k, ReadHead)
  /\ UNCHANGED <<msg_out_buf_, outbox_, socket_open, io_queue, writes, wire,
                 inbound, assert_ok>>
  /\ UNCHANGED caller_vars
\* The completion handler of an async_read (ReadHead's or ReadBody's), failed.
ReadFailed(k) ==
  /\ store_' = Notify(store_, -1, StrV(ReadError))
  /\ origin' = Notify(origin, -1, FromRead)
  /\ reads' = Remove(reads, k)
  /\ UNCHANGED <<msg_out_buf_, outbox_, socket_open, io_queue, writes, wire,
                 inbound, assert_ok>>
  /\ UNCHANGED caller_vars

\* ReadHead's handler without `if (!n) return self->ReadHead()`.
ReadHeadDoneAlwaysBody(k, n) ==
  /\ reads[k].op = "head"
  /\ reads[k].live
  /\ Len(inbound) < MaxInbound
  /\ inbound' = Append(inbound, n)
  /\ reads' = Replace(reads, k, ReadBody(n))
  /\ UNCHANGED <<store_, origin, msg_out_buf_, outbox_, socket_open, io_queue,
                 writes, wire, assert_ok>>
  /\ UNCHANGED caller_vars
\* The completion handler of ReadHead's async_read with the length prefix n.
ReadHeadDone(k, n) ==
  /\ reads[k].op = "head"
  /\ reads[k].live
  /\ Len(inbound) < MaxInbound
  /\ inbound' = Append(inbound, n)
  /\ IF n # 0
       THEN /\ reads' = Replace(reads, k, ReadBody(n))
       ELSE /\ reads' = Replace(reads, k, ReadHead)
  /\ UNCHANGED <<store_, origin, msg_out_buf_, outbox_, socket_open, io_queue,
                 writes, wire, assert_ok>>
  /\ UNCHANGED caller_vars

\* ReadBody's handler with a catch block that reports the failure on -1.
ReadBodyDoneNotifyOnFailure(k, p) ==
  /\ reads[k].op = "body"
  /\ reads[k].live
  /\ p \in Payloads(reads[k].len)
  /\ IF p.kind = "H"
       THEN /\ io_queue' = Send(io_queue, EmptyMsg)
            /\ reads' = Replace(reads, k, ReadHead)
            /\ UNCHANGED <<store_, origin>>
       ELSE IF p.kind = "bson" /\ DecodeOutcome(p.out).ok
         THEN /\ store_' = Notify(store_, ToInt(p.t), DecodeOutcome(p.out).v)
              /\ origin' = Notify(origin, ToInt(p.t), FromResponse(p.t))
              /\ reads' = Replace(reads, k, ReadHead)
              /\ UNCHANGED io_queue
         ELSE /\ store_' = Notify(store_, -1, StrV("bson error"))
              /\ origin' = Notify(origin, -1, FromRead)
              /\ reads' = Replace(reads, k, ReadHead)
              /\ UNCHANGED io_queue
  /\ UNCHANGED <<msg_out_buf_, outbox_, socket_open, writes, wire, inbound, assert_ok>>
  /\ UNCHANGED caller_vars
\* The completion handler of ReadBody's async_read with the payload p.
ReadBodyDone(k, p) ==
  /\ reads[k].op = "body"
  /\ reads[k].live
  /\ p \in Payloads(reads[k].len)
  /\ IF p.kind = "H"
       THEN /\ io_queue' = Send(io_queue, EmptyMsg)
            /\ reads' = Replace(reads, k, ReadHead)
            /\ UNCHANGED <<store_, origin>>
       ELSE IF p.kind = "bson" /\ DecodeOutcome(p.out).ok
         THEN /\ store_' = Notify(store_, ToInt(p.t), DecodeOutcome(p.out).v)
              /\ origin' = Notify(origin, ToInt(p.t), FromResponse(p.t))
              /\ reads' = Replace(reads, k, ReadHead)
              /\ UNCHANGED io_queue
         ELSE /\ reads' = Replace(reads, k, ReadHead)
              /\ UNCHANGED <<store_, origin, io_queue>>
  /\ UNCHANGED <<msg_out_buf_, outbox_, socket_open, writes, wire, inbound, assert_ok>>
  /\ UNCHANGED caller_vars

\* ------------------------------------------------------- the caller threads
\* What the callers pass in.
DbNames == {"db"}
SqlTexts == {"q1"}
ArgsChoices == {<<>>, <<IntS(1)>>}
RowsChoices == {<<>>, <<<<IntS(1)>>, <<>>>>}
\* Future.Get's timeout, in seconds: 0 waits without limit.
Timeouts == {0, 2}
\* How far the clock (in ticks of system_clock) may have moved when
\* cv_.wait_for(1ms) returns: a notify_all wakes it early, else 1 ms passes.
WaitTicks == {1, 1000000}

\* A call's locals: ticker is the ticker of Use, ExecuteAsync,
\* BatchInsertAsync or the Future, pticker the ticker of Prepare (0 before it
\* is taken), id what Prepare got, prepared what ExecuteAsync got from it.
NoCall == [op |-> "none", sql |-> "", args |-> <<>>, rows |-> <<>>, ticker |-> 0,
           pticker |-> 0, prepared |-> -1, id |-> 0, timeout |-> 0, elapsed |-> 0,
           sync |-> FALSE]
NoValue == ScalarV("null")
NoSource == [kind |-> "none", t |-> I64(0, 0)]
NoRet == [op |-> "none", kind |-> "none", t |-> 0, v |-> NoValue, from |-> NoSource]
Ret(op, kind, t, v) == [op |-> op, kind |-> kind, t |-> t, v |-> v, from |-> NoSource]
RetFrom(op, kind, t, v, src) == [op |-> op, kind |-> kind, t |-> t, v |-> v, from |-> src]

\* ticker_counter_++ in place of ++ticker_counter_: the value before is used.
PostIncrement(counter) == [counter |-> counter + 1, ticker |-> counter]
\* auto ticker = ++ticker_counter_: the counter after, and the value used.
PreIncrement(counter) == [counter |-> counter + 1, ticker |-> counter + 1]

\* Where a caller goes next: on at pc `next` with locals `locals`, or out of
\* its call with r (a return value, or the exception that leaves the call).
Go(next, locals) == [pc |-> next, call |-> locals, ret |-> NoRet]
Done(r) == [pc |-> "idle", call |-> NoCall, ret |-> r]
Step(c, x) ==
  /\ pc' = [pc EXCEPT ![c] = x.pc]
  /\ call' = [call EXCEPT ![c] = x.call]

\* Caller c takes a ticker (Prepare into pticker) and goes on at pc `next`.
TakeTicker(c, locals, next) ==
  /\ ticker_counter_ < MaxTicker
  /\ ticker_counter_' = PreIncrement(ticker_counter_).counter
  /\ allocated' = Append(allocated, PreIncrement(ticker_counter_).ticker)
  /\ late' = IF ConnectionErrorFired
               THEN late \cup {PreIncrement(ticker_counter_).ticker} ELSE late
  /\ Step(c, Go(next, IF next = "prep_send"
                        THEN [locals EXCEPT !.pticker = PreIncrement(ticker_counter_).ticker]
                        ELSE [locals EXCEPT !.ticker = PreIncrement(ticker_counter_).ticker]))

\* Prepare returns id to the call that made it: to the application, or to
\* ExecuteAsync or BatchInsertAsync, which go on to take their own ticker.
PrepareReturns(locals, id) ==
  IF locals.op = "prepare"
    THEN Done(Ret("prepare", "id", locals.pticker, IntV(id)))
    ELSE Go(IF locals.op = "run" THEN "run_ticker" ELSE "batch_ticker",
            [locals EXCEPT !.prepared = id])

\* Prepare without the lookup: every call goes on to the round trip.
PrepareFindNever(locals) == Go("prep_ticker", locals)
\* The first part of Prepare: the cache lookup under m_.
PrepareFind(locals) ==
  IF locals.sql \in DOMAIN prepared_
    THEN PrepareReturns(locals, prepared_[locals.sql])
    ELSE Go("prep_ticker", locals)

\* Caller c is inside Prepare(sql), past a lookup that found nothing.
InPrepare(c, sql) ==
  /\ pc[c] \in {"prep_ticker", "prep_send", "prep_get", "prep_wait", "prep_emplace"}
  /\ call[c].sql = sql
\* raced after caller c's lookup of sql.
Raced(c, sql) ==
  IF sql \notin DOMAIN prepared_ /\ \E c2 \in Callers \ {c} : InPrepare(c2, sql)
    THEN raced \cup {sql} ELSE raced

\* prepared_[sql] = id in the place of emplace: an existing entry is replaced.
EmplaceOverwrite(cache, sql, id) ==
  [k \in DOMAIN cache \cup {sql} |-> IF k = sql THEN id ELSE cache[k]]
\* prepared_.emplace(sql, id): an existing entry is kept.
Emplace(cache, sql, id) ==
  IF sql \in DOMAIN cache THEN cache
  ELSE [k \in DOMAIN cache \cup {sql} |-> IF k = sql THEN id ELSE cache[k]]

\* The request each sending pc hands to Send.
RowsToJson(rows) == [k \in 1..Len(rows) |-> ConvertArgs(rows[k], JNull)]
Request(p, l) ==
  IF p = "use_send" THEN UseMsg(l.ticker, l.sql)
  ELSE IF p = "prep_send" THEN PrepareMsg(l.pticker, l.sql)
  ELSE IF p = "run_send" THEN RunMsg(l.ticker, l.sql, l.prepared, ConvertArgs(l.args, JNull))
  ELSE BatchMsg(l.ticker, l.prepared, RowsToJson(l.rows))

\* Connection::Use, to its first statement.
Use(c, db) ==
  /\ pc[c] = "idle"
  /\ TakeTicker(c, [NoCall EXCEPT !.op = "use", !.sql = db], "use_send")
  /\ UNCHANGED <<prepared_, futures, raced>>
  /\ UNCHANGED reactor_vars

\* Connection::Prepare called by the application, to the end of its lookup.
Prepare(c, sql) ==
  /\ pc[c] = "idle"
  /\ Step(c, PrepareFind([NoCall EXCEPT !.op = "prepare", !.sql = sql]))
  /\ raced' = Raced(c, sql)
  /\ UNCHANGED <<ticker_counter_, prepared_, futures, allocated, late>>
  /\ UNCHANGED reactor_vars

\* Connection::ExecuteAsync (Execute when sync), to its first shared access:
\* Prepare's lookup when there are args, else its own ticker.
ExecuteAsync(c, sql, args, sync) ==
  /\ pc[c] = "idle"
  /\ LET locals == [NoCall EXCEPT !.op = "run", !.sql = sql, !.args = args, !.sync = sync] IN
       IF Len(args) # 0
         THEN /\ Step(c, PrepareFind(locals))
              /\ raced' = Raced(c, sql)
              /\ UNCHANGED <<ticker_counter_, allocated, late>>
         ELSE /\ TakeTicker(c, locals, "run_send")
              /\ UNCHANGED raced
  /\ UNCHANGED <<prepared_, futures>>
  /\ UNCHANGED reactor_vars

\* Connection::BatchInsertAsync (BatchInsert when sync), to the end of
\* Prepare's lookup.
BatchInsertAsync(c, sql, rows, sync) ==
  /\ pc[c] = "idle"
  /\ Step(c, PrepareFind([NoCall EXCEPT !.op = "batch", !.sql = sql, !.rows = rows, !.sync = sync]))
  /\ raced' = Raced(c, sql)
  /\ UNCHANGED <<ticker_counter_, prepared_, futures, allocated, late>>
  /\ UNCHANGED reactor_vars

\* ++ticker_counter_ in Prepare, ExecuteAsync (after Prepare) and
\* BatchInsertAsync.
NextPc(p) ==
  IF p = "prep_ticker" THEN "prep_send"
  ELSE IF p = "run_ticker" THEN "run_send" ELSE "batch_send"
Ticker(c) ==
  /\ pc[c] \in {"prep_ticker", "run_ticker", "batch_ticker"}
  /\ TakeTicker(c, call[c], NextPc(pc[c]))
  /\ UNCHANGED <<prepared_, futures, raced>>
  /\ UNCHANGED reactor_vars

\* Send in Use and in Prepare, which then wait in Get_.
SendAndWait(c) ==
  /\ pc[c] \in {"use_send", "prep_send"}
  /\ io_queue' = Send(io_queue, Request(pc[c], call[c]))
  /\ pc' = [pc EXCEPT ![c] = IF pc[c] = "use_send" THEN "use_get" ELSE "prep_get"]
  /\ UNCHANGED <<store_, origin, msg_out_buf_, outbox_, socket_open, reads, writes,
                 wire, inbound, assert_ok>>
  /\ UNCHANGED <<ticker_counter_, prepared_, call, futures, allocated, raced, late>>

\* Send in ExecuteAsync and BatchInsertAsync, which return a Future; Execute
\* and BatchInsert call its Get at once.
SendAndReturn(c) ==
  /\ pc[c] \in {"run_send", "batch_send"}
  /\ io_queue' = Send(io_queue, Request(pc[c], call[c]))
  /\ IF call[c].sync
       THEN /\ Step(c, Go("get", call[c]))
            /\ UNCHANGED futures
       ELSE /\ Step(c, Done(Ret(call[c].op, "future", call[c].ticker, NoValue)))
            /\ futures' = futures \cup {call[c].ticker}
  /\ UNCHANGED <<store_, origin, msg_out_buf_, outbox_, socket_open, reads, writes,
                 wire, inbound, assert_ok>>
  /\ UNCHANGED <<ticker_counter_, prepared_, allocated, raced, late>>

\* Future.Get(timeout) called by the application on a Future it holds.
Get(c, t, timeout) ==
  /\ pc[c] = "idle"
  /\ t \in futures
  /\ Step(c, Go("get", [NoCall EXCEPT !.op = "get", !.ticker = t, !.timeout = timeout]))
  /\ UNCHANGED <<ticker_counter_, prepared_, futures, allocated, raced, late>>
  /\ UNCHANGED reactor_vars

\* Connection::Close: the shutdown is posted to the reactor.
Close(c) ==
  /\ pc[c] = "idle"
  /\ socket_open
  /\ \A k \in 1..Len(io_queue) : io_queue[k].h # "close"
  /\ io_queue' = Append(io_queue, [h |-> "close", msg |-> EmptyMsg])
  /\ UNCHANGED <<store_, origin, msg_out_buf_, outbox_, socket_open, reads, writes,
                 wire, inbound, assert_ok>>
  /\ UNCHANGED caller_vars

\* ------------------------------------------------------- FutureImpl::Get_
CheckPcs == {"use_get", "prep_get", "get"}
WaitPcs == {"use_wait", "prep_wait", "get_wait"}
WaitPc(p) == IF p = "use_get" THEN "use_wait" ELSE IF p = "prep_get" THEN "prep_wait" ELSE "get_wait"
CheckPc(p) == IF p = "use_wait" THEN "use_get" ELSE IF p = "prep_wait" THEN "prep_get" ELSE "get"

\* The ticker of the FutureImpl that Get_ runs on.
Own(p, l) == IF p \in {"prep_get", "prep_wait"} THEN l.pticker ELSE l.ticker

\* What the caller of Get_ does with the Value it returns: Use drops it,
\* Prepare takes the std::int64_t out of it (std::get throws
\* bad_variant_access on anything else), Future.Get hands it on.
Returned(p, l, v) ==
  IF p = "use_get" THEN Done(Ret("use", "void", Own(p, l), NoValue))
  ELSE IF p = "get" THEN Done(RetFrom(l.op, "value", Own(p, l), v, origin[Own(p, l)]))
  ELSE IF v.tag = "int" THEN Go("prep_emplace", [l EXCEPT !.id = v.i])
  ELSE Done(RetFrom(l.op, "bad_variant", Own(p, l), v, origin[Own(p, l)]))

\* One pass of Get_'s loop under m_cv_, at pc p with locals l: the entry of
\* the Future's own ticker first, then the entry of ticker -1, else wait.
\* Without a timeout, cv_.wait_for and the timeout test change nothing, and
\* the caller is back at the top of the loop.
LookNoSentinel(p, l) ==
  IF Own(p, l) \in DOMAIN store_
    THEN IF store_[Own(p, l)].tag = "str"
           THEN Done(RetFrom(l.op, "server_error", Own(p, l), store_[Own(p, l)], origin[Own(p, l)]))
           ELSE Returned(p, l, store_[Own(p, l)])
  ELSE Go(IF l.timeout > 0 THEN WaitPc(p) ELSE p, l)
Look(p, l) ==
  IF Own(p, l) \in DOMAIN store_
    THEN IF store_[Own(p, l)].tag = "str"
           THEN Done(RetFrom(l.op, "server_error", Own(p, l), store_[Own(p, l)], origin[Own(p, l)]))
           ELSE Returned(p, l, store_[Own(p, l)])
  ELSE IF -1 \in DOMAIN store_
    THEN IF store_[-1].tag = "str"
           THEN Done(RetFrom(l.op, "conn_error", Own(p, l), store_[-1], origin[-1]))
           ELSE Done(RetFrom(l.op, "bad_variant", Own(p, l), store_[-1], origin[-1]))
  ELSE Go(IF l.timeout > 0 THEN WaitPc(p) ELSE p, l)

\* One pass of the loop that erases the entry it returns.
GetCheckErase(c) ==
  /\ pc[c] \in CheckPcs
  /\ Step(c, Look(pc[c], call[c]))
  /\ store_' = [t \in DOMAIN store_ \ {Own(pc[c], call[c])} |-> store_[t]]
  /\ UNCHANGED <<ticker_counter_, prepared_, futures, allocated, raced, late>>
  /\ UNCHANGED <<msg_out_buf_, outbox_, socket_open, io_queue, reads, writes, wire,
                 inbound, assert_ok, origin>>
\* One pass of Get_'s loop, to the wait or to the return.
GetCheck(c) ==
  /\ pc[c] \in CheckPcs
  /\ Step(c, Look(pc[c], call[c]))
  /\ UNCHANGED <<ticker_counter_, prepared_, futures, allocated, raced, late>>
  /\ UNCHANGED reactor_vars

\* timeout > 0 && (now - start).count() >= timeout, with the clock's ticks
\* since start in elapsed.
TimedOut(timeout, elapsed) == timeout > 0 /\ elapsed >= timeout

\* cv_.wait_for(lk, 1ms) returns after d more ticks; then the timeout test.
GetWake(c, d) ==
  /\ pc[c] \in WaitPcs
  /\ LET l == call[c]
         e == IF l.timeout > 0 THEN l.elapsed + d ELSE l.elapsed
     IN  IF TimedOut(l.timeout, e)
           THEN Step(c, Done(Ret(l.op, "timeout", Own(pc[c], l), NoValue)))
           ELSE Step(c, Go(CheckPc(pc[c]), [l EXCEPT !.elapsed = e]))
  /\ UNCHANGED <<ticker_counter_, prepared_, futures, allocated, raced, late>>
  /\ UNCHANGED reactor_vars

\* The end of Prepare: prepared_.emplace(sql, id) under m_, return id.
PrepareEmplace(c) ==
  /\ pc[c] = "prep_emplace"
  /\ prepared_' = Emplace(prepared_, call[c].sql, call[c].id)
  /\ Step(c, PrepareReturns(call[c], call[c].id))
  /\ UNCHANGED <<ticker_counter_, futures, allocated, raced, late>>
  /\ UNCHANGED reactor_vars

\* ------------------------------------------------------ the specification
\* Connect: the Connection is constructed, its socket connected, and
\* ReadHead has armed the first read (no database name is given).
Init ==
  /\ ticker_counter_ = 0
  /\ prepared_ = <<>>
  /\ store_ = <<>>
  /\ origin = <<>>
  /\ msg_out_buf_ = <<>>
  /\ outbox_ = <<>>
  /\ socket_open = TRUE
  /\ io_queue = <<>>
  /\ reads = <<[op |-> "head", len |-> 4, live |-> TRUE]>>
  /\ writes = <<>>
  /\ wire = <<>>
  /\ inbound = <<>>
  /\ assert_ok = TRUE
  /\ pc = [c \in Callers |-> "idle"]
  /\ call = [c \in Callers |-> NoCall]
  /\ futures = {}
  /\ allocated = <<>>
  /\ raced = {}
  /\ late = {}

\* The steps inside a call that every call may take.
CallSteps ==
  \/ \E c \in Callers : Ticker(c)
  \/ \E c \in Callers : SendAndWait(c)
  \/ \E c \in Callers : SendAndReturn(c)
  \/ \E c \in Callers : GetCheck(c)
  \/ \E c \in Callers : PrepareEmplace(c)

\* The write path of the reactor.
WriteSteps ==
  \/ SendHandler
  \/ \E k \in 1..Len(writes) : WriteDone(k)

\* The calls of NumCallers threads against a server that keeps to the
\* protocol: it answers a request it has received and not answered yet, in
\* any order, with a statement id or an error; no socket failure, no Close.
Received(t) == \E k \in 1..Len(wire) : wire[k].payload.t = t
Answers ==
  {[kind |-> "bson", t |-> I64(0, t), out |-> o] :
     t \in {x \in 1..ticker_counter_ : Received(x) /\ x \notin DOMAIN store_},
     o \in {JInt(7), JInt(-2), JStr("err")}}
NextCalls ==
  \/ \E c \in Callers, db \in DbNames : Use(c, db)
  \/ \E c \in Callers, sql \in SqlTexts : Prepare(c, sql)
  \/ \E c \in Callers, sql \in SqlTexts, args \in ArgsChoices :
       ExecuteAsync(c, sql, args, FALSE)
  \/ \E c \in Callers, sql \in SqlTexts, rows \in RowsChoices :
       BatchInsertAsync(c, sql, rows, FALSE)
  \/ CallSteps
  \/ WriteSteps
  \/ \E k \in 1..Len(reads) : ReadHeadDone(k, 5)
  \/ \E k \in 1..Len(reads) : \E p \in Answers : ReadBodyDone(k, p)

\* One thread that runs statements without arguments, waits on the Futures
\* and closes, against a server that may send any frame, on a socket whose
\* reads and writes may fail.
NextIO ==
  \/ \E sql \in SqlTexts, sync \in BOOLEAN :
       ticker_counter_ < MaxRequests /\ ExecuteAsync(1, sql, <<>>, sync)
  \/ SendAndReturn(1)
  \/ \E t \in futures, timeout \in Timeouts : Get(1, t, timeout)
  \/ GetCheck(1)
  \/ \E d \in WaitTicks : GetWake(1, d)
  \/ Close(1)
  \/ WriteSteps
  \/ CloseHandler
  \/ \E k \in 1..Len(writes) : WriteFailed(k)
  \/ \E k \in 1..Len(reads) : ReadFailed(k)
  \/ \E k \in 1..Len(reads), n \in PrefixLens : ReadHeadDone(k, n)
  \/ \E k \in 1..Len(reads) : \E p \in Payloads(reads[k].len) : ReadBodyDone(k, p)

\* Every call of every thread and every event of the socket.
Next ==
  \/ \E c \in Callers, db \in DbNames : Use(c, db)
  \/ \E c \in Callers, sql \in SqlTexts : Prepare(c, sql)
  \/ \E c \in Callers, sql \in SqlTexts, args \in ArgsChoices, sync \in BOOLEAN :
       ExecuteAsync(c, sql, args, sync)
  \/ \E c \in Callers, sql \in SqlTexts, rows \in RowsChoices, sync \in BOOLEAN :
       BatchInsertAsync(c, sql, rows, sync)
  \/ \E c \in Callers, t \in futures, timeout \in Timeouts : Get(c, t, timeout)
  \/ \E c \in Callers, d \in WaitTicks : GetWake(c, d)
  \/ \E c \in Callers : Close(c)
  \/ CallSteps
  \/ WriteSteps
  \/ CloseHandler
  \/ \E k \in 1..Len(writes) : WriteFailed(k)
  \/ \E k \in 1..Len(reads) : ReadFailed(k)
  \/ \E k \in 1..Len(reads), n \in PrefixLens : ReadHeadDone(k, n)
  \/ \E k \in 1..Len(reads) : \E p \in Payloads(reads[k].len) : ReadBodyDone(k, p)

Spec == Init /\ [][Next]_vars
\* The restrictions of Spec the claims are checked under.
SpecCalls == Init /\ [][NextCalls]_vars
SpecIO == Init /\ [][NextIO]_vars

\* A read on the closed socket completes with an error (operation aborted
\* for one that was outstanding, bad descriptor for one armed afterwards).
ReadCancelled == \E k \in 1..Len(reads) : ~socket_open /\ ReadFailed(k)
\* io_service_.run() keeps running the posted handlers and the completion
\* handlers of a closed socket; a caller thread keeps running its call, and
\* cv_.wait_for returns within its millisecond.
Scheduling ==
  /\ WF_vars(SendHandler)
  /\ WF_vars(CloseHandler)
  /\ WF_vars(ReadCancelled)
  /\ WF_vars(SendAndReturn(1))
  /\ WF_vars(GetCheck(1))
  /\ WF_vars(\E d \in WaitTicks : GetWake(1, d))
\* One thread that runs statements without arguments, waits on the Futures
\* and closes, against a server that keeps to the protocol, on a socket
\* whose reads and writes may fail, with that scheduling.
NextClose ==
  \/ \E sql \in SqlTexts, sync \in BOOLEAN :
       ticker_counter_ < MaxRequests /\ ExecuteAsync(1, sql, <<>>, sync)
  \/ SendAndReturn(1)
  \/ \E t \in futures, timeout \in Timeouts : Get(1, t, timeout)
  \/ GetCheck(1)
  \/ \E d \in WaitTicks : GetWake(1, d)
  \/ Close(1)
  \/ WriteSteps
  \/ CloseHandler
  \/ \E k \in 1..Len(writes) : WriteFailed(k)
  \/ \E k \in 1..Len(reads) : ReadFailed(k)
  \/ \E k \in 1..Len(reads) : ReadHeadDone(k, 5)
  \/ \E k \in 1..Len(reads) : \E p \in Answers : ReadBodyDone(k, p)
SpecClose == Init /\ [][NextClose]_vars /\ Scheduling

\* Timestamps a caller passes, in nanoseconds from the epoch: both signs,
\* with the nanosecond components 0, 1 and 999999999.
TmChoices == {-1000000001, -1000000000, -1, 0, 1, 999999999, 1000000000, 1999999999}
\* The responses of a server that returns the args of a run request it has
\* received as a result matrix of one row.
Echoes ==
  {[kind |-> "bson", t |-> I64(0, wire[k].payload.t), out |-> JArr(<<wire[k].payload.args>>)] :
     k \in {x \in 1..Len(wire) : /\ wire[x].payload.cmd = "run"
                                 /\ wire[x].payload.t \notin DOMAIN store_}}
\* One thread that runs Execute with one timestamp argument against that
\* server, which answers prepare requests with an id.
NextTm ==
  \/ \E sql \in SqlTexts, d \in TmChoices : ExecuteAsync(1, sql, <<TmS(d)>>, TRUE)
  \/ Ticker(1)
  \/ SendAndWait(1)
  \/ PrepareEmplace(1)
  \/ SendAndReturn(1)
  \/ GetCheck(1)
  \/ WriteSteps
  \/ \E k \in 1..Len(reads) : ReadHeadDone(k, 5)
  \/ \E k \in 1..Len(reads) : \E p \in Echoes : ReadBodyDone(k, p)
  \/ \E k \in 1..Len(reads) :
       \E t \in {x \in 1..ticker_counter_ : Received(x) /\ x \notin DOMAIN store_} :
         ReadBodyDone(k, [kind |-> "bson", t |-> I64(0, t), out |-> JInt(7)])
SpecTm == Init /\ [][NextTm]_vars

\* --------------------------------------------------------- what was sent
\* The frames of the Send handlers still waiting in io_service_.
RECURSIVE PostedFrames(_)
PostedFrames(queue) ==
  IF queue = <<>> THEN <<>>
  ELSE IF Head(queue).h = "send"
    THEN <<Frame(Head(queue).msg)>> \o PostedFrames(Tail(queue))
    ELSE PostedFrames(Tail(queue))
\* Every frame handed to Send on an open socket so far, oldest first:
\* written, in the write in flight, in msg_out_buf_, or still posted.
Queued == wire \o outbox_ \o msg_out_buf_ \o PostedFrames(io_queue)
\* The positions in Queued of the frames of command cmd.
FramesOf(cmd) == {k \in 1..Len(Queued) : Queued[k].payload.cmd = cmd}
\* The prepare frames for the text sql.
PrepareFrames(sql) == {k \in FramesOf("prepare") : Queued[k].payload.text = sql}
\* The tickers a caller holds in its locals.
Held(c) == {call[c].ticker, call[c].pticker} \ {0}

\* ------------------------------------------------------------- the claims
\* What the next look of caller c's Get_ at the table gives.
NextLook(c) == Look(pc[c], call[c]).ret

\* C1: a Future.Get on ticker t' returns an outcome, or raises it as a server
\* error, only if the outcome came from a response whose ticker field is t'.
DeliveredToMatchingTicker ==
  \A c \in Callers :
    (pc[c] = "get" /\ NextLook(c).kind \in {"value", "server_error"})
      => NextLook(c).from = FromResponse(I64(0, call[c].ticker))

AnsweredWithId(sql) ==
  \A k \in PrepareFrames(sql) :
    Queued[k].payload.t \in DOMAIN store_ => store_[Queued[k].payload.t].tag = "int"
\* Caller c is in ExecuteAsync or BatchInsertAsync on the text sql, past the
\* Prepare it called.
PastPrepare(c, sql) ==
  /\ pc[c] \in {"run_ticker", "run_send", "batch_ticker", "batch_send"}
  /\ call[c].sql = sql
  /\ call[c].op = "batch" \/ call[c].args # <<>>

\* C3 as stated: whatever threads the Prepare calls for one text run on, if
\* every answer is an integer id then at most one prepare frame is ever sent
\* for it and every call returns the cached id.
PrepareSentOnce ==
  \A sql \in SqlTexts :
    AnsweredWithId(sql) =>
      /\ Cardinality(PrepareFrames(sql)) <= 1
      /\ \A c \in Callers :
           (PastPrepare(c, sql) /\ sql \in DOMAIN prepared_)
             => call[c].prepared = prepared_[sql]

\* C3 amended: for a text whose Prepare calls never ran their round trips at
\* the same time and were answered with integer ids, at most one prepare
\* frame is ever sent (exactly one once the id is cached), the id a call
\* returns is the cached id, and with the id cached no call is in a round trip.
PrepareSentOnceUnlessRaced ==
  \A sql \in SqlTexts :
    (sql \notin raced /\ AnsweredWithId(sql)) =>
      /\ Cardinality(PrepareFrames(sql)) <= 1
      /\ \A c \in Callers :
           PastPrepare(c, sql)
             => (sql \in DOMAIN prepared_ /\ call[c].prepared = prepared_[sql])
      /\ \A c \in Callers :
           (pc[c] = "prep_emplace" /\ call[c].sql = sql)
             => Emplace(prepared_, sql, call[c].id)[sql] = call[c].id
      /\ sql \in DOMAIN prepared_ =>
           /\ Cardinality(PrepareFrames(sql)) = 1
           /\ \A k \in PrepareFrames(sql) :
                /\ Queued[k].payload.t \in DOMAIN store_
                /\ store_[Queued[k].payload.t] = IntV(prepared_[sql])
           /\ \A c \in Callers : ~InPrepare(c, sql)
\* A call was served from the cache (it took no ticker for a prepare
\* request) after one round trip had cached the id.
PrepareServedFromCache ==
  \E c \in Callers, sql \in DOMAIN prepared_ :
    /\ sql \notin raced
    /\ AnsweredWithId(sql)
    /\ PastPrepare(c, sql)
    /\ call[c].pticker = 0
    /\ Cardinality(PrepareFrames(sql)) = 1

\* The run frames of calls without args: field "3" is null or the empty array.
NoArgRunFrames ==
  {k \in FramesOf("run") : Queued[k].payload.args \in {JNull, JArr(<<>>)}}

\* C4: a call of ExecuteAsync with empty args queues a run frame whose
\* statement is the SQL text and whose args field is the empty array, and
\* takes no ticker for a prepare request.
EmptyArgsRunFrame ==
  /\ \A k \in NoArgRunFrames :
       /\ ~Queued[k].payload.byid
       /\ Queued[k].payload.text \in SqlTexts
       /\ Queued[k].payload.args = JArr(<<>>)
  /\ \A c \in Callers :
       (pc[c] = "run_send" /\ call[c].args = <<>>) => call[c].pticker = 0

\* The run frames of calls with args: field "3" is a non-empty array.
ArgRunFrames ==
  {k \in FramesOf("run") : Queued[k].payload.args \notin {JNull, JArr(<<>>)}}
\* A prepare request for sql with a ticker below t was written to the
\* socket and answered with the integer id.
RoundTripBefore(t, sql, id) ==
  \E k \in 1..Len(wire) :
    /\ wire[k].payload.cmd = "prepare"
    /\ wire[k].payload.text = sql
    /\ wire[k].payload.t < t
    /\ wire[k].payload.t \in DOMAIN store_
    /\ store_[wire[k].payload.t] = IntV(id)

\* C5 as stated: a call of ExecuteAsync with args is about to queue its run
\* frame only after its own prepare request was written and answered, and
\* every run frame with args carries the prepared id.
ExecutePreparesFirst ==
  /\ \A c \in Callers :
       (pc[c] = "run_send" /\ call[c].args # <<>>) =>
         /\ call[c].pticker # 0
         /\ \E k \in 1..Len(wire) : wire[k].payload = PrepareMsg(call[c].pticker, call[c].sql)
         /\ call[c].pticker \in DOMAIN store_
  /\ \A k \in ArgRunFrames : Queued[k].payload.byid

\* C5 amended: a call of ExecuteAsync with args has the prepared id before
\* its run frame is queued, from the cache or else from its own prepare
\* round trip, and either way some prepare request for the text was written
\* and answered with that id before; the run frame carries the id when it is
\* not negative and the SQL text when it is.
ExecuteResolvesIdFirst ==
  /\ \A c \in Callers :
       (pc[c] = "run_send" /\ call[c].args # <<>>) =>
         /\ \A k \in 1..Len(Queued) : Queued[k].payload.t # call[c].ticker
         /\ RoundTripBefore(call[c].ticker, call[c].sql, call[c].prepared)
         /\ IF call[c].pticker = 0
              THEN /\ call[c].sql \in DOMAIN prepared_
                   /\ prepared_[call[c].sql] = call[c].prepared
              ELSE /\ \E k \in 1..Len(wire) :
                        wire[k].payload = PrepareMsg(call[c].pticker, call[c].sql)
                   /\ call[c].pticker \in DOMAIN store_
                   /\ store_[call[c].pticker] = IntV(call[c].prepared)
  /\ \A k \in ArgRunFrames :
       IF Queued[k].payload.byid
         THEN /\ Queued[k].payload.id >= 0
              /\ \E sql \in SqlTexts :
                   RoundTripBefore(Queued[k].payload.t, sql, Queued[k].payload.id)
         ELSE \E id \in {store_[t].i : t \in DOMAIN store_} :
                /\ id < 0
                /\ RoundTripBefore(Queued[k].payload.t, Queued[k].payload.text, id)
\* A run frame with args that carries a prepared id was written to the
\* socket, and another call with args got its id from the cache.
RunFrameCarriesId ==
  /\ \E k \in 1..Len(wire) :
       /\ wire[k].payload.cmd = "run"
       /\ wire[k].payload.byid
       /\ wire[k].payload.args = JArr(<<JInt(1)>>)
  /\ \E c \in Callers :
       pc[c] = "run_send" /\ call[c].args # <<>> /\ call[c].pticker = 0

\* C6: every batch frame carries a prepared id and a matrix with one row per
\* input row, and every row of it is an array (of that row's args).
BatchFrameMatrix ==
  \A k \in FramesOf("batch") :
    /\ Queued[k].payload.byid
    /\ Queued[k].payload.args.tag = "array"
    /\ \A r \in 1..Len(Queued[k].payload.args.a) :
         Queued[k].payload.args.a[r].tag = "array"

\* The heartbeat payload: one byte, 'H'.
Heartbeat == [kind |-> "H", t |-> NoTicker, out |-> JNull]
\* The handler posted for the pong.
Pong == [h |-> "send", msg |-> EmptyMsg]

\* C7 as stated: each heartbeat the read loop handles queues exactly one
\* zero-length frame, writes nothing into the table and changes the result
\* of no Get.
HeartbeatAnswered ==
  [][\A k \in 1..Len(reads) :
       ReadBodyDone(k, Heartbeat) =>
         /\ io_queue' = Append(io_queue, Pong)
         /\ store_' = store_
         /\ \A c \in Callers : NextLook(c)' = NextLook(c)]_vars

\* C7 amended: each heartbeat handled while the socket is open posts exactly
\* one zero-length frame to the reactor, and one handled after the socket
\* was closed posts none; either way the table, the write buffers and the
\* result of every Get stay as they were and the read of the next length
\* prefix is armed.
HeartbeatAnsweredWhileOpen ==
  [][\A k \in 1..Len(reads) :
       ReadBodyDone(k, Heartbeat) =>
         /\ io_queue' = IF socket_open THEN Append(io_queue, Pong) ELSE io_queue
         /\ store_' = store_
         /\ msg_out_buf_' = msg_out_buf_
         /\ outbox_' = outbox_
         /\ Len(reads') = Len(reads)
         /\ reads'[k].op = "head"
         /\ \A c \in Callers : NextLook(c)' = NextLook(c)]_vars
\* A heartbeat came while an Execute waited, its pong was written to the
\* socket, and the Execute is about to return the outcome of its own response.
PongWrittenGetResolves ==
  /\ \E k \in 1..Len(inbound) : inbound[k] = 1
  /\ \E k \in 1..Len(wire) : wire[k] = Frame(EmptyMsg)
  /\ pc[1] = "get"
  /\ call[1].op = "run"
  /\ NextLook(1).kind = "value"
  /\ NextLook(1).from = FromResponse(I64(0, call[1].ticker))

\* C8: a length prefix of 0 arms the read of the next length prefix and no
\* read of a payload, and leaves the table, the cache, both write buffers,
\* the posted handlers, the socket's output, every caller and the result of
\* every Get as they were.
ZeroLengthIsNoOp ==
  [][\A k \in 1..Len(reads) :
       ReadHeadDone(k, 0) =>
         /\ reads' = Replace(reads, k, [op |-> "head", len |-> 4, live |-> socket_open])
         /\ store_' = store_
         /\ prepared_' = prepared_
         /\ msg_out_buf_' = msg_out_buf_
         /\ outbox_' = outbox_
         /\ io_queue' = io_queue
         /\ wire' = wire
         /\ pc' = pc
         /\ \A c \in Callers : NextLook(c)' = NextLook(c)]_vars
\* A zero length prefix came while a Get waited with a request in flight.
ZeroLengthReceived ==
  /\ \E k \in 1..Len(inbound) : inbound[k] = 0
  /\ pc[1] = "get"
  /\ call[1].ticker \notin DOMAIN store_
  /\ outbox_ # <<>>

\* C9 as stated: with the connection error fired, every Get raises it at its
\* next look at the table, whatever the table holds for its own ticker.
ConnectionErrorReachesEveryGet ==
  \A c \in Callers :
    (pc[c] = "get" /\ ConnectionErrorFired) => NextLook(c).kind = "conn_error"

\* C9 amended: with the connection error fired, a Get whose own ticker has
\* no entry raises the stored error message at its next look at the table
\* and its call ends there; a Get whose own ticker has an entry returns or
\* raises that entry.
ConnectionErrorReachesPendingGet ==
  \A c \in Callers :
    (pc[c] = "get" /\ ConnectionErrorFired) =>
      IF call[c].ticker \in DOMAIN store_
        THEN /\ NextLook(c).kind \in {"value", "server_error"}
             /\ NextLook(c).v = store_[call[c].ticker]
        ELSE /\ NextLook(c).kind = "conn_error"
             /\ NextLook(c).v = store_[-1]
             /\ NextLook(c).v.tag = "str"
             /\ Look(pc[c], call[c]).pc = "idle"
\* A read failed while a Get waited on a ticker without an entry.
GetPendingAtError ==
  /\ ConnectionErrorFired
  /\ pc[1] = "get"
  /\ call[1].op = "get"
  /\ call[1].ticker \notin DOMAIN store_

\* C10: no request begun after the connection error fired is handed to the
\* reactor, appended to a write buffer or written, and no such ExecuteAsync
\* returns a Future.
FailFastAfterError ==
  /\ \A k \in 1..Len(Queued) : Queued[k].payload.t \notin late
  /\ futures \cap late = {}

\* The ticks of std::chrono::system_clock in one second (nanoseconds).
TicksPerSecond == 1000000000

\* C11: a Get raises the timeout error only once timeout seconds have passed
\* since it began.
TimeoutAfterSeconds ==
  [][\A c \in Callers, d \in WaitTicks :
       (GetWake(c, d) /\ pc'[c] = "idle")
         => call[c].elapsed + d >= call[c].timeout * TicksPerSecond]_vars

\* Close has been called: its handler is posted, or has closed the socket.
CloseCalled == ~socket_open \/ \E k \in 1..Len(io_queue) : io_queue[k].h = "close"
\* Caller c is in a Get_ whose own ticker has no entry.
GetBlocked(c) ==
  pc[c] \in CheckPcs \cup WaitPcs /\ Own(pc[c], call[c]) \notin DOMAIN store_

\* C12: Close only posts its handler (the caller is idle right after it);
\* once Close is called the socket is eventually closed with an error message
\* stored on ticker -1, and every Get waiting on a ticker without an entry,
\* begun before or after Close, eventually ends.
CloseFailsEveryWait ==
  /\ [][Close(1) => (pc'[1] = "idle" /\ socket_open' /\ store_' = store_)]_vars
  /\ CloseCalled ~> (~socket_open /\ -1 \in DOMAIN store_ /\ store_[-1].tag = "str")
  /\ \A c \in Callers : (CloseCalled /\ GetBlocked(c)) ~> (pc[c] = "idle")
\* The socket is closed, the cancelled read has stored its error on ticker
\* -1, and a Get without an entry for its own ticker is about to raise it.
GetRaisesAfterClose ==
  /\ ~socket_open
  /\ -1 \in DOMAIN store_
  /\ store_[-1] = StrV("Operation canceled")
  /\ GetBlocked(1)
  /\ pc[1] = "get"
  /\ NextLook(1).kind = "conn_error"

\* The run frame of the Execute that caller c waits on.
OwnRunFrames(c) ==
  {k \in FramesOf("run") : pc[c] = "get" /\ Queued[k].payload.t = call[c].ticker}

\* C13: a timestamp argument at d nanoseconds from the epoch is sent as the
\* pair [s, r] with 0 <= r < 1e9 and s * 1e9 + r = d, and the pair decoded
\* from a response is the instant d again.
TimestampRoundTrip ==
  \A c \in Callers :
    (pc[c] = "get" /\ call[c].args # <<>> /\ call[c].args[1].tag = "tm") =>
      /\ \A k \in OwnRunFrames(c) :
           LET pair == Queued[k].payload.args.a[1] IN
             /\ pair.tag = "array" /\ Len(pair.a) = 2
             /\ 0 <= pair.a[2].i /\ pair.a[2].i < NanosPerSecond
             /\ pair.a[1].i * NanosPerSecond + pair.a[2].i = call[c].args[1].i
      /\ (call[c].ticker \in DOMAIN store_ /\ store_[call[c].ticker].tag = "rs")
           => store_[call[c].ticker].rows[1][1] = call[c].args[1]

\* A payload, not the heartbeat, that ReadBody's try block throws on: bytes
\* that are no BSON response, or a response whose outcome fails to decode.
Undecodable(p) ==
  \/ p.kind = "garbage"
  \/ p.kind = "bson" /\ ~DecodeOutcome(p.out).ok

\* C14: when a received payload other than a heartbeat cannot be decoded, at
\* any point of decoding (part-way through a result matrix included), the
\* handler writes no entry into the table, for no ticker and not for -1,
\* leaves the socket open as it was, posts nothing, and puts exactly one
\* read of the next length prefix in the place of the completed read.
DecodeFailureSkipsFrame ==
  [][\A k \in 1..Len(reads) :
       reads[k].op = "body" =>
         \A p \in {q \in Payloads(reads[k].len) : Undecodable(q)} :
           ReadBodyDone(k, p)
             => /\ store_' = store_
                /\ socket_open' = socket_open
                /\ io_queue' = io_queue
                /\ reads' = Replace(reads, k, ReadHead)]_vars
\* One frame of 5 bytes has been received and handled, a request is on the
\* wire, and the table is still empty with the socket open and the next
\* read armed: the frame did not decode, and the request stays unresolved.
UndecodedFrameSkipped ==
  /\ inbound = <<5>>
  /\ reads = <<ReadHead>>
  /\ socket_open
  /\ store_ = <<>>
  /\ Received(1)
\* NumCallers threads that send run requests and close, while the server
\* sends heartbeats, on a socket whose writes may fail.
NextSend ==
  \/ \E c \in Callers, sql \in SqlTexts : ExecuteAsync(c, sql, <<>>, FALSE)
  \/ \E c \in Callers : SendAndReturn(c)
  \/ \E c \in Callers : Close(c)
  \/ WriteSteps
  \/ CloseHandler
  \/ \E k \in 1..Len(writes) : WriteFailed(k)
  \/ \E k \in 1..Len(reads) : ReadHeadDone(k, 1)
  \/ \E k \in 1..Len(reads) : ReadBodyDone(k, Heartbeat)
SpecSend == Init /\ [][NextSend]_vars

\* Every frame given to async_write so far, oldest first (outbox_ holds the
\* bytes of the last write begun, in flight or failed), then the frames
\* waiting in msg_out_buf_.
Handed == wire \o outbox_
Buffered == Handed \o msg_out_buf_

\* C15: with several threads sending and the reactor sending pongs, at most
\* one socket write is in flight, Write is entered only with outbox_ empty
\* (its assertion never fails), and the frames given to the socket are whole
\* frames in the order their handlers ran: each run of a Send handler puts
\* its one frame at the end, no other step adds, drops or moves a frame,
\* and what is given to the socket is a growing prefix of that sequence.
WritesSerialized ==
  /\ [](Len(writes) <= 1)
  /\ [](writes # <<>> => outbox_ # <<>>)
  /\ []assert_ok
  /\ [][IF SendHandler
          THEN Buffered' = Append(Buffered, Frame(Head(io_queue).msg))
          ELSE Buffered' = Buffered]_vars
  /\ [][Len(Handed') >= Len(Handed)]_vars
\* A write is in flight while frames of both threads and a pong have been
\* queued, one of them waiting in msg_out_buf_ behind the write.
FramesQueuedBehindWrite ==
  /\ Len(writes) = 1
  /\ msg_out_buf_ # <<>>
  /\ wire # <<>>
  /\ \E k \in 1..Len(Buffered) : Buffered[k] = Frame(EmptyMsg)
  /\ \E k \in 1..Len(Buffered) : Buffered[k].payload.cmd = "run"
\* A write on the open socket completes.
WriteCompletes == \E k \in 1..Len(writes) : WriteDone(k)
\* NumCallers threads that send run requests while the server sends
\* heartbeats, on a socket whose writes all succeed, with io_service_.run()
\* running every posted handler and every completion handler.
NextFlush ==
  \/ \E c \in Callers, sql \in SqlTexts : ExecuteAsync(c, sql, <<>>, FALSE)
  \/ \E c \in Callers : SendAndReturn(c)
  \/ SendHandler
  \/ WriteCompletes
  \/ \E k \in 1..Len(reads) : ReadHeadDone(k, 1)
  \/ \E k \in 1..Len(reads) : ReadBodyDone(k, Heartbeat)
SpecFlush ==
  Init /\ [][NextFlush]_vars /\ WF_vars(SendHandler) /\ WF_vars(WriteCompletes)

\* C16: while no write fails and the reactor runs, every frame a Send
\* handler appended to msg_out_buf_ (the n-th, for each n up to one frame per
\* ticker and one pong per frame received) is eventually given to a write;
\* the completion of a write starts the write of everything queued
\* meanwhile; and frames wait in msg_out_buf_ only while a write is in
\* flight.
QueuedFramesGetWritten ==
  /\ \A n \in 1..(MaxTicker + MaxInbound) :
       (Len(Buffered) >= n) ~> (Len(Handed) >= n)
  /\ [][\A k \in 1..Len(writes) :
          (WriteDone(k) /\ msg_out_buf_ # <<>>)
            => (outbox_' = msg_out_buf_ /\ msg_out_buf_' = <<>> /\ Len(writes') = 1)]_vars
  /\ [](msg_out_buf_ # <<>> => writes # <<>>)
\* A write of two frames is in flight after an earlier write completed: the
\* two were queued during that write and flushed at its completion.
QueuedFramesFlushed ==
  /\ Len(outbox_) >= 2
  /\ Len(writes) = 1
  /\ wire # <<>>
\* C17: one read is outstanding from Connect on; the handling of a frame
\* (zero-length, heartbeat, decodable or not) and every other step but the
\* failure of a read leaves exactly one, armed for a length prefix once the
\* frame is handled; a failed read, of a prefix or of a payload, stores an
\* error string on ticker -1 and leaves none, and none is armed afterwards.
OneReadUntilFailure ==
  /\ Len(reads) = 1
  /\ [](Len(reads) <= 1)
  /\ [][(~ \E k \in 1..Len(reads) : ReadFailed(k)) => Len(reads') = Len(reads)]_vars
  /\ [][\A k \in 1..Len(reads) :
          ((\E p \in Payloads(reads[k].len) : ReadBodyDone(k, p)) \/ ReadHeadDone(k, 0))
            => reads' = <<ReadHead>>]_vars
  /\ [][\A k \in 1..Len(reads) :
          ReadFailed(k) => /\ reads' = <<>>
                           /\ -1 \in DOMAIN store_'
                           /\ store_'[-1].tag = "str"
                           /\ origin'[-1] = FromRead]_vars
  /\ [][reads = <<>> => reads' = <<>>]_vars
\* Frames were handled and then a read failed: the error is on ticker -1
\* and no read is outstanding.
ReadLoopStopped ==
  /\ reads = <<>>
  /\ Len(inbound) = MaxInbound
  /\ -1 \in DOMAIN store_
  /\ origin[-1] = FromRead
\* C18: the table is written at most once per key, -1 included: an outcome
\* stored for a ticker is not overwritten or changed by any later step.
StoredOnce ==
  [][\A t \in DOMAIN store_ :
       t \in DOMAIN store_' /\ store_'[t] = store_[t] /\ origin'[t] = origin[t]]_vars
\* C19: no step of Future.Get (its call, a look at the table that returns a
\* result or raises the server error or the connection error or goes to
\* wait, a wake that times out or goes round) adds, removes or changes an
\* entry of the table or touches anything else of the reactor or of another
\* thread's call; and a decodable response is stored under its ticker
\* whatever the state of the Futures, one that timed out included.
GetLeavesTable ==
  /\ [][\A c \in Callers :
          (\/ GetCheck(c)
           \/ \E d \in WaitTicks : GetWake(c, d)
           \/ \E t \in futures, timeout \in Timeouts : Get(c, t, timeout))
            => /\ store_' = store_
               /\ origin' = origin
               /\ UNCHANGED <<msg_out_buf_, outbox_, socket_open, io_queue, reads, writes>>
               /\ \A o \in Callers \ {c} : pc'[o] = pc[o] /\ call'[o] = call[o]]_vars
  /\ [][\A k \in 1..Len(reads) :
          reads[k].op = "body" =>
            \A p \in {q \in Payloads(reads[k].len) : q.kind = "bson" /\ ~Undecodable(q)} :
              ReadBodyDone(k, p)
                => /\ ToInt(p.t) \in DOMAIN store_'
                   /\ store_'[ToInt(p.t)] = DecodeOutcome(p.out).v]_vars
\* A Get has waited and come round without its outcome while the table
\* holds the outcome of another request, and nobody else is in a call.
GetWaitsBesideStoredOutcome ==
  /\ pc[1] = "get"
  /\ call[1].elapsed > 0
  /\ call[1].ticker \notin DOMAIN store_
  /\ \E t \in futures : t \in DOMAIN store_ /\ origin[t] = FromResponse(I64(0, t))
\* NumCallers threads that call Prepare and Close against a server that
\* answers a prepare request with an id or an error string, on a socket
\* whose reads and writes may fail.
NextPrepare ==
  \/ \E c \in Callers, sql \in SqlTexts : Prepare(c, sql)
  \/ \E c \in Callers : Ticker(c)
  \/ \E c \in Callers : SendAndWait(c)
  \/ \E c \in Callers : GetCheck(c)
  \/ \E c \in Callers : PrepareEmplace(c)
  \/ \E c \in Callers : Close(c)
  \/ WriteSteps
  \/ CloseHandler
  \/ \E k \in 1..Len(writes) : WriteFailed(k)
  \/ \E k \in 1..Len(reads) : ReadFailed(k)
  \/ \E k \in 1..Len(reads) : ReadHeadDone(k, 5)
  \/ \E k \in 1..Len(reads) : \E p \in Answers : ReadBodyDone(k, p)
SpecPrepare == Init /\ [][NextPrepare]_vars

\* Caller c's Prepare is at Get_ and its next look raises: the server error
\* on its own ticker, or the connection error on -1.
PrepareFails(c) ==
  /\ pc[c] = "prep_get"
  /\ NextLook(c).kind \in {"server_error", "conn_error"}
\* A Prepare of the text sql has sent its request and ended without an id:
\* the request's ticker holds an error string, or holds nothing (the call
\* raised the connection error).
PrepareFailed(sql) ==
  \E k \in PrepareFrames(sql) :
    /\ \A c \in Callers : ~(InPrepare(c, sql) /\ call[c].pticker = Queued[k].payload.t)
    /\ Queued[k].payload.t \in DOMAIN store_ => store_[Queued[k].payload.t].tag = "str"
\* What a failed Prepare leaves behind: the call ends with the error and the
\* cache as it was; every entry of the cache is the id some prepare request
\* for its text was answered with; an entry never changes; and a Prepare
\* that misses the cache goes on to take a ticker, which no request so far
\* carries, and to wait for the answer to it.
FailureLeavesCache ==
  /\ [][\A c \in Callers :
          (PrepareFails(c) /\ GetCheck(c))
            => (pc'[c] = "idle" /\ prepared_' = prepared_)]_vars
  /\ [](\A sql \in DOMAIN prepared_ :
          \E k \in PrepareFrames(sql) :
            /\ Queued[k].payload.t \in DOMAIN store_
            /\ store_[Queued[k].payload.t] = IntV(prepared_[sql]))
  /\ [][\A sql \in DOMAIN prepared_ :
          sql \in DOMAIN prepared_' /\ prepared_'[sql] = prepared_[sql]]_vars
  /\ [][\A c \in Callers, sql \in SqlTexts :
          (Prepare(c, sql) /\ sql \notin DOMAIN prepared_) => pc'[c] = "prep_ticker"]_vars
  /\ [][\A c \in Callers :
          (SendAndWait(c) /\ pc[c] = "prep_send")
            => /\ pc'[c] = "prep_get"
               /\ \A k \in 1..Len(Queued) : Queued[k].payload.t # call[c].pticker]_vars

\* C20 as stated: a Prepare whose request yields no id (an error string, or
\* the connection error while it waits) raises and leaves the cache
\* unchanged, no entry is created but from an id, entries keep their ids,
\* and a later Prepare of the text sends a new prepare request: its frame,
\* with a new ticker, is queued for the socket.
FailedPrepareNotCached ==
  /\ FailureLeavesCache
  /\ [][\A c \in Callers :
          (SendAndWait(c) /\ pc[c] = "prep_send" /\ PrepareFailed(call[c].sql))
            => io_queue' = Append(io_queue,
                 [h |-> "send", msg |-> PrepareMsg(call[c].pticker, call[c].sql)])]_vars

\* C20 amended: the same, but the later Prepare queues its new request only
\* while the socket is open; once Close has closed it, Send drops the
\* request and the call goes on to wait for an answer.
FailedPrepareNotCachedWhileOpen ==
  /\ FailureLeavesCache
  /\ [][\A c \in Callers :
          (SendAndWait(c) /\ pc[c] = "prep_send" /\ PrepareFailed(call[c].sql))
            => /\ io_queue' =
                    IF socket_open
                      THEN Append(io_queue,
                             [h |-> "send", msg |-> PrepareMsg(call[c].pticker, call[c].sql)])
                      ELSE io_queue]_vars
\* A prepare request was answered with an error string, nothing is cached,
\* and a Prepare called after that one ended has sent a second request.
PrepareSentAnewAfterFailure ==
  \E sql \in SqlTexts :
    /\ sql \notin raced
    /\ sql \notin DOMAIN prepared_
    /\ Cardinality(PrepareFrames(sql)) = 2
    /\ \E k \in PrepareFrames(sql) :
         /\ Queued[k].payload.t \in DOMAIN store_
         /\ store_[Queued[k].payload.t] = StrV("err")
====
